---------------------------- MODULE Spec2Model ----------------------------
(***************************************************************************)
(* Receitas da Avo: the api service (field translation, like increment,    *)
(* simulated login), the detail view, the list view and the admin view,    *)
(* as state machines over the remote sheet and the browser's localStorage. *)
(***************************************************************************)
EXTENDS Integers, Sequences, FiniteSets, TLC

VARIABLES
    \* ---- api.js exercised as pure functions
    apiArg,        \* the argument handed to the function under test
    apiKind,       \* "storage" (a sheet row) or "form" (frontend form data)
    apiOp,         \* the function applied so far: "none" or its name
    apiRes,        \* the value it produced
    \* ---- remote sheet and localStorage (shared by all views)
    sheet,         \* the rows of the receitas sheet, in server order
    likedRecipes,  \* localStorage 'liked_recipes': array of recipe ids
    authToken,     \* localStorage 'auth_token': NoToken or a token
    \* ---- RecipeDetail (one view instance of this client)
    routeId,       \* useParams().id of the current render
    recipe,        \* useState(null)
    dLoading,      \* useState(true)
    likes,         \* useState(0)
    isLiking,      \* useState(false)
    liked,         \* useState(false)
    loadCalls,     \* loadRecipe calls awaiting getRecipeById, per id
    likeCalls,     \* likeRecipe calls in flight, per client
    myLikeWrites,  \* history: like PUTs of this client applied, per id
    callBudget,    \* likeRecipe calls that may still be started
    \* ---- App and Navbar
    route,         \* the page the router shows: "home", "detail", "login", "admin"
    loggedIn,      \* Navbar: isAuthenticated() as of its last render
    logoutFlip,    \* history: flips at every logout() call
    \* ---- Login
    credentials,   \* useState({username: '', password: ''})
    loginError,    \* useState('')
    loginLoading,  \* useState(false)
    loginCall,     \* the login(username, password) call in its delay
    \* ---- Home
    recipes,       \* useState([])
    hLoading,      \* useState(true)
    searchTerm,    \* useState('')
    currentPage,   \* useState(1)
    homeFetch,     \* loadRecipes awaits getRecipes()
    \* ---- AdminDashboard
    aRecipes,        \* useState([])
    categories,      \* useState([])
    aLoading,        \* useState(true)
    showModal,       \* useState(false)
    showDeleteModal, \* useState(false)
    editingRecipe,   \* useState(null)
    deletingRecipe,  \* useState(null)
    saving,          \* useState(false)
    formData,        \* useState(emptyForm)
    aCall,           \* the handleSubmit / handleDelete call that is suspended
    aLoad,           \* the loadData call awaiting Promise.all, with what arrived
    aOrphans,        \* fetches still in flight whose Promise.all has rejected
    adminBudget      \* create / update / delete requests that may still be sent

apiVars == <<apiArg, apiKind, apiOp, apiRes>>
storeVars == <<sheet, likedRecipes, authToken>>
detailVars == <<routeId, recipe, dLoading, likes, isLiking, liked,
                loadCalls, likeCalls, myLikeWrites, callBudget>>
navVars == <<route, loggedIn, logoutFlip>>
loginVars == <<credentials, loginError, loginLoading, loginCall>>
homeVars == <<recipes, hLoading, searchTerm, currentPage, homeFetch>>
adminVars == <<aRecipes, categories, aLoading, showModal, showDeleteModal, editingRecipe,
               deletingRecipe, saving, formData, aCall, aLoad, aOrphans, adminBudget>>
vars == <<apiVars, storeVars, detailVars, navVars, loginVars, homeVars, adminVars>>
notDetail == <<apiVars, navVars, loginVars, homeVars, adminVars>>
notHome == <<apiVars, detailVars, navVars, loginVars, adminVars>>
notSession == <<apiVars, detailVars>>
notAdmin == <<apiVars, detailVars, navVars, loginVars, homeVars>>
notApi == <<detailVars, navVars, loginVars, homeVars, adminVars>>

\* ------------------------------------------------------------------ bounds
MaxLikes == 2          \* largest like count drawn for an input record
MaxLikeCalls == 3      \* likeRecipe calls started in one behaviour
MaxLoads == 2          \* loadRecipe calls in flight at once
MaxHomeRecipes == 13   \* rows of the sheet the list view may be served
MaxAdminOps == 2       \* create / update / delete requests sent in one behaviour

\* ------------------------------------------------------------- JS values
\* a text is the sequence of its characters; '' is <<>>
Texts == {<<>>, <<"a">>}
SemCategoria == <<"S", "e", "m", " ", "c", "a", "t", "e", "g", "o", "r", "i", "a">>
TextFields == {"titulo", "imagem", "tempo", "ingredientes", "preparacao", "categoria"}
FormFields == {"titulo", "imagem_url", "tempo_preparo", "ingredientes", "instrucoes",
               "categoria_id"}

\* a mutant of OrText: only a missing value takes the default (?? for ||)
OrText_nullish(r, f, d) == IF f \in DOMAIN r THEN r[f] ELSE d

\* receita.f || d for a text field: a missing or empty value is falsy
OrText(r, f, d) == IF f \in DOMAIN r /\ r[f] # <<>> THEN r[f] ELSE d

\* receita.f || d for a number: a missing value or 0 is falsy
OrNum(r, f, d) == IF f \in DOMAIN r /\ r[f] # 0 THEN r[f] ELSE d

\* a mutant of normalizeRecipe: categoria_id copies the display category
normalizeRecipe_copyLabel(receita) ==
    LET u == [titulo |-> OrText(receita, "titulo", <<>>),
              imagem_url |-> OrText(receita, "imagem", <<>>),
              tempo_preparo |-> OrText(receita, "tempo", <<>>),
              ingredientes |-> OrText(receita, "ingredientes", <<>>),
              instrucoes |-> OrText(receita, "preparacao", <<>>),
              likes |-> OrNum(receita, "likes", 0),
              categoria |-> OrText(receita, "categoria", SemCategoria),
              categoria_id |-> OrText(receita, "categoria", SemCategoria)]
    IN  IF "id" \in DOMAIN receita THEN [id |-> receita.id] @@ u ELSE u

normalizeRecipe(receita) ==
    LET u == [titulo |-> OrText(receita, "titulo", <<>>),
              imagem_url |-> OrText(receita, "imagem", <<>>),
              tempo_preparo |-> OrText(receita, "tempo", <<>>),
              ingredientes |-> OrText(receita, "ingredientes", <<>>),
              instrucoes |-> OrText(receita, "preparacao", <<>>),
              likes |-> OrNum(receita, "likes", 0),
              categoria |-> OrText(receita, "categoria", SemCategoria),
              categoria_id |-> OrText(receita, "categoria", <<>>)]
    IN  IF "id" \in DOMAIN receita THEN [id |-> receita.id] @@ u ELSE u

\* the frontend field each sheet field of a request body is read from
FormSource == [titulo |-> "titulo", imagem |-> "imagem_url", tempo |-> "tempo_preparo",
               ingredientes |-> "ingredientes", preparacao |-> "instrucoes",
               categoria |-> "categoria_id"]

\* a mutant of denormalizeRecipe: the body also carries a like count of 0
denormalizeRecipe_sendsLikes(data) ==
    [likes |-> 0] @@
    [f \in {g \in TextFields : FormSource[g] \in DOMAIN data} |-> data[FormSource[f]]]

\* a field the form does not hold is undefined, and JSON drops it from the body
denormalizeRecipe(data) ==
    [f \in {g \in TextFields : FormSource[g] \in DOMAIN data} |-> data[FormSource[f]]]

\* a mutant of createBody: the like count of the form is passed through
createBody_keepLikes(data) ==
    (IF "likes" \in DOMAIN data THEN [likes |-> data.likes] ELSE [likes |-> 0])
    @@ denormalizeRecipe(data)

\* the receita object createRecipe posts: {...denormalizeRecipe(data), likes: 0}
createBody(data) == [likes |-> 0] @@ denormalizeRecipe(data)

\* ------------------------------------------------ inputs of the api functions
LikeValues == 0..MaxLikes

\* sheet rows: any subset of the text fields present, likes present or not
StorageRecords ==
    { [id |-> 1] @@ t @@ l :
        t \in UNION { [D -> Texts] : D \in SUBSET TextFields },
        l \in {<<>>} \cup { [likes |-> n] : n \in LikeValues } }

\* form data: the six form fields, with or without a like count of its own
FormRecords ==
    { t @@ l : t \in [FormFields -> Texts],
               l \in {<<>>} \cup { [likes |-> n] : n \in LikeValues } }

\* ----------------------------------------------------- the remote sheet
\* an optional value: <<>> is null / nothing, <<x>> is x
None == <<>>
Some(x) == <<x>>

\* this client, and one other client standing for the rest of the world
Me == "me"
Others == {"other"}
Clients == {Me} \cup Others
\* the ids a route may name: two rows of the sheet, and one that names no row
RecipeIds == {1, 2}
RouteIds == RecipeIds \cup {3}

\* the rows the sessions start from; the second row has empty likes and
\* categoria cells, which Sheety leaves out of the record
InitialRow(i) ==
    IF i % 2 = 1
    THEN [id |-> i, titulo |-> <<"a">>, imagem |-> <<"a">>, tempo |-> <<"a">>,
          ingredientes |-> <<"a">>, preparacao |-> <<"a">>, likes |-> 0,
          categoria |-> <<"a">>]
    ELSE [id |-> i, titulo |-> <<"b">>, imagem |-> <<"a">>, tempo |-> <<>>,
          ingredientes |-> <<"a">>, preparacao |-> <<"a">>]

InitialSheet == <<InitialRow(1), InitialRow(2)>>

HasRow(id) == \E i \in DOMAIN sheet : sheet[i].id = id
RowOf(id) == sheet[CHOOSE i \in DOMAIN sheet : sheet[i].id = id]

\* GET /receitas/{id}: the transport fails, or the body holds the row under
\* "receita", or (no such row) the body holds no receita
GetResponses(id) ==
    {[ok |-> FALSE]} \cup
    (IF HasRow(id) THEN {[ok |-> TRUE, data |-> [receita |-> RowOf(id)]]}
                   ELSE {[ok |-> TRUE, data |-> <<>>]})

\* a mutant of SheetAfterPut: a like count in the body is added to the stored
\* count instead of replacing it
SheetAfterPut_addsLikes(id, body) ==
    [i \in DOMAIN sheet |->
        IF sheet[i].id # id THEN sheet[i]
        ELSE IF "likes" \in DOMAIN body
        THEN [likes |-> OrNum(sheet[i], "likes", 0) + body.likes] @@ body @@ sheet[i]
        ELSE body @@ sheet[i]]

\* PUT /receitas/{id} with a partial body: the row's other cells are kept
SheetAfterPut(id, body) ==
    [i \in DOMAIN sheet |-> IF sheet[i].id = id THEN body @@ sheet[i] ELSE sheet[i]]

\* getRecipeById(id) on a response: throws, or null, or the normalized row
getRecipeById(resp) ==
    IF ~resp.ok THEN [throw |-> TRUE]
    ELSE IF "receita" \notin DOMAIN resp.data THEN [throw |-> FALSE, value |-> None]
    ELSE [throw |-> FALSE, value |-> Some(normalizeRecipe(resp.data.receita))]

\* a mutant of NewLikes: the count read is sent back as it is
NewLikes_sameCount(receita) == OrNum(receita, "likes", 0)

\* likeRecipe: (receita.likes || 0) + 1
NewLikes(receita) == OrNum(receita, "likes", 0) + 1

Includes(arr, x) == \E i \in 1..Len(arr) : arr[i] = x

\* POST /receitas: the sheet gives the new row the next row number as its id
NextRowId == IF Len(sheet) = 0 THEN 1 ELSE sheet[Len(sheet)].id + 1
SheetAfterPost(body) == Append(sheet, [id |-> NextRowId] @@ body)

\* -------------------------------------------- api.js as pure functions
ApiIdle ==
    /\ apiArg = <<>>
    /\ apiKind = "none"
    /\ apiOp = "none"
    /\ apiRes = <<>>

ApiInputs ==
    /\ \/ apiKind = "storage" /\ apiArg \in StorageRecords
       \/ apiKind = "form" /\ apiArg \in FormRecords
    /\ apiOp = "none"
    /\ apiRes = <<>>

\* normalizeRecipe(receita) on a sheet row
ApplyNormalize ==
    /\ apiKind = "storage" /\ apiOp = "none"
    /\ apiRes' = normalizeRecipe(apiArg)
    /\ apiOp' = "normalizeRecipe"
    /\ UNCHANGED <<apiArg, apiKind>>
    /\ UNCHANGED <<storeVars, notApi>>

\* denormalizeRecipe(data) on the frontend record normalizeRecipe produced
ApplyDenormalize ==
    /\ apiOp = "normalizeRecipe"
    /\ apiRes' = denormalizeRecipe(apiRes)
    /\ apiOp' = "denormalizeRecipe"
    /\ UNCHANGED <<apiArg, apiKind>>
    /\ UNCHANGED <<storeVars, notApi>>

\* createRecipe(data): the posted body, and the row the sheet stores for it
ApplyCreate ==
    /\ apiKind = "form" /\ apiOp = "none"
    /\ apiRes' = createBody(apiArg)
    /\ apiOp' = "createRecipe"
    /\ sheet' = SheetAfterPost(createBody(apiArg))
    /\ UNCHANGED <<apiArg, apiKind>>
    /\ UNCHANGED <<likedRecipes, authToken, notApi>>

\* ------------------------------------------------------- RecipeDetail
Idle == [c \in Clients |-> None]
NoLoads == [id \in RouteIds |-> 0]
LoadsInFlight == loadCalls[1] + loadCalls[2] + loadCalls[3]

\* the like button is on screen: neither the spinner nor "not found"
ButtonShown == ~dLoading /\ recipe # None

\* useEffect(() => loadRecipe(), [id]) up to its await: setLoading(true), GET sent
loadRecipeStart(id) ==
    /\ dLoading' = TRUE
    /\ loadCalls' = [loadCalls EXCEPT ![id] = @ + 1]

\* the route parameter changes while the view stays mounted
RouteChange(id) ==
    /\ route = "detail"
    /\ id # routeId
    /\ LoadsInFlight < MaxLoads
    /\ routeId' = id
    /\ loadRecipeStart(id)
    /\ UNCHANGED <<recipe, likes, isLiking, liked, likeCalls, myLikeWrites, callBudget>>
    /\ UNCHANGED <<storeVars, notDetail>>

\* loadRecipe after its await, for the call made with route parameter id
loadRecipeResume(id, resp) ==
    LET data == getRecipeById(resp) IN
    /\ IF ~data.throw /\ data.value # None
       THEN /\ recipe' = data.value
            /\ likes' = data.value[1].likes
            /\ liked' = Includes(likedRecipes, id)
       ELSE UNCHANGED <<recipe, likes, liked>>
    /\ dLoading' = FALSE

LoadDone(id) ==
    /\ loadCalls[id] > 0
    /\ \E resp \in GetResponses(id) : loadRecipeResume(id, resp)
    /\ loadCalls' = [loadCalls EXCEPT ![id] = @ - 1]
    /\ UNCHANGED <<routeId, isLiking, likeCalls, myLikeWrites, callBudget>>
    /\ UNCHANGED <<storeVars, notDetail>>

\* a mutant of handleLike: the click starts a call whatever isLiking and liked
handleLike_noGuard ==
    /\ route = "detail"
    /\ ButtonShown
    /\ callBudget > 0
    /\ isLiking' = TRUE
    /\ likeCalls' = [likeCalls EXCEPT ![Me] = Some([id |-> routeId, phase |-> "get"])]
    /\ callBudget' = callBudget - 1
    /\ UNCHANGED <<routeId, recipe, dLoading, likes, liked, loadCalls, myLikeWrites>>
    /\ UNCHANGED <<storeVars, notDetail>>

\* handleLike up to its await: the guard, setIsLiking(true), likeRecipe(id) called
handleLike ==
    /\ route = "detail"
    /\ ButtonShown
    /\ IF isLiking \/ liked
       THEN UNCHANGED vars
       ELSE /\ callBudget > 0
            /\ isLiking' = TRUE
            /\ likeCalls' = [likeCalls EXCEPT ![Me] = Some([id |-> routeId, phase |-> "get"])]
            /\ callBudget' = callBudget - 1
            /\ UNCHANGED <<routeId, recipe, dLoading, likes, liked, loadCalls, myLikeWrites>>
            /\ UNCHANGED <<storeVars, notDetail>>

\* another client's view calls likeRecipe(id)
OtherLike(c, id) ==
    /\ likeCalls[c] = None
    /\ callBudget > 0
    /\ likeCalls' = [likeCalls EXCEPT ![c] = Some([id |-> id, phase |-> "get"])]
    /\ callBudget' = callBudget - 1
    /\ UNCHANGED <<routeId, recipe, dLoading, likes, isLiking, liked, loadCalls, myLikeWrites>>
    /\ UNCHANGED <<storeVars, notDetail>>

\* a mutant of handleLikeResume: the id is stored whenever nothing threw, a
\* null result included
handleLikeResume_storesOnNull(id, threw, newLikes) ==
    /\ likedRecipes' = IF ~threw THEN Append(likedRecipes, id) ELSE likedRecipes
    /\ IF route # "detail" THEN UNCHANGED <<likes, liked, isLiking>>
       ELSE /\ IF ~threw /\ newLikes # None
               THEN likes' = newLikes[1] /\ liked' = TRUE
               ELSE UNCHANGED <<likes, liked>>
            /\ isLiking' = FALSE

\* a mutant of handleLikeResume: isLiking is cleared only when nothing threw
handleLikeResume_noFinally(id, threw, newLikes) ==
    /\ likedRecipes' = IF ~threw /\ newLikes # None THEN Append(likedRecipes, id)
                       ELSE likedRecipes
    /\ IF route # "detail" THEN UNCHANGED <<likes, liked, isLiking>>
       ELSE /\ IF ~threw /\ newLikes # None
               THEN likes' = newLikes[1] /\ liked' = TRUE
               ELSE UNCHANGED <<likes, liked>>
            /\ isLiking' = IF threw THEN isLiking ELSE FALSE

\* handleLike after its await: newLikes is <<n>>, or <<>> for null; threw says
\* that likeRecipe threw instead. The setters of a view that has unmounted do
\* nothing; the write to localStorage happens all the same.
handleLikeResume(id, threw, newLikes) ==
    /\ likedRecipes' = IF ~threw /\ newLikes # None THEN Append(likedRecipes, id)
                       ELSE likedRecipes
    /\ IF route # "detail" THEN UNCHANGED <<likes, liked, isLiking>>
       ELSE /\ IF ~threw /\ newLikes # None
               THEN likes' = newLikes[1] /\ liked' = TRUE
               ELSE UNCHANGED <<likes, liked>>
            /\ isLiking' = FALSE

\* what a likeRecipe call that ends leaves in its caller
LikeReturns(c, id, threw, newLikes) ==
    /\ likeCalls' = [likeCalls EXCEPT ![c] = None]
    /\ IF c = Me THEN handleLikeResume(id, threw, newLikes)
                 ELSE UNCHANGED <<likes, liked, likedRecipes, isLiking>>

\* likeRecipe between its GET and its PUT
LikeGet(c) ==
    /\ likeCalls[c] # None /\ likeCalls[c][1].phase = "get"
    /\ LET id == likeCalls[c][1].id IN
       \E resp \in GetResponses(id) :
          IF ~resp.ok THEN LikeReturns(c, id, TRUE, None)
          ELSE IF "receita" \notin DOMAIN resp.data THEN LikeReturns(c, id, FALSE, None)
          ELSE /\ likeCalls' = [likeCalls EXCEPT ![c] =
                      Some([id |-> id, phase |-> "put",
                            newLikes |-> NewLikes(resp.data.receita)])]
               /\ UNCHANGED <<likes, liked, likedRecipes, isLiking>>
    /\ UNCHANGED <<routeId, recipe, dLoading, loadCalls, myLikeWrites, callBudget>>
    /\ UNCHANGED <<sheet, authToken, notDetail>>

\* likeRecipe after its PUT { receita: { likes: newLikes } }
LikePut(c) ==
    /\ likeCalls[c] # None /\ likeCalls[c][1].phase = "put"
    /\ LET id == likeCalls[c][1].id
           n == likeCalls[c][1].newLikes IN
       \/ /\ HasRow(id)
          /\ sheet' = SheetAfterPut(id, [likes |-> n])
          /\ LikeReturns(c, id, FALSE, Some(n))
          /\ myLikeWrites' = IF c = Me THEN [myLikeWrites EXCEPT ![id] = @ + 1]
                                       ELSE myLikeWrites
       \/ /\ UNCHANGED <<sheet, myLikeWrites>>
          /\ LikeReturns(c, id, TRUE, None)
    /\ UNCHANGED <<routeId, recipe, dLoading, loadCalls, callBudget>>
    /\ UNCHANGED <<authToken, notDetail>>

StoreInit ==
    /\ sheet = InitialSheet
    /\ likedRecipes = <<>>
    /\ authToken = None

\* the view as mounted on /receita/:id, its first loadRecipe awaiting the GET
DetailInit ==
    /\ routeId \in RouteIds
    /\ recipe = None
    /\ dLoading = TRUE
    /\ likes = 0
    /\ isLiking = FALSE
    /\ liked = FALSE
    /\ loadCalls = [id \in RouteIds |-> IF id = routeId THEN 1 ELSE 0]
    /\ likeCalls = Idle
    /\ myLikeWrites = [id \in RouteIds |-> 0]
    /\ callBudget = MaxLikeCalls

\* the view leaves the screen: its state is gone and the GETs of its loadRecipe
\* calls end without effect; a likeRecipe call in flight goes on
DetailUnmounts ==
    /\ routeId' = 1
    /\ recipe' = None
    /\ dLoading' = TRUE
    /\ likes' = 0
    /\ isLiking' = FALSE
    /\ liked' = FALSE
    /\ loadCalls' = NoLoads
    /\ UNCHANGED <<likeCalls, myLikeWrites, callBudget>>

DetailIdle ==
    /\ routeId = 1
    /\ recipe = None
    /\ dLoading = TRUE
    /\ likes = 0
    /\ isLiking = FALSE
    /\ liked = FALSE
    /\ loadCalls = NoLoads
    /\ likeCalls = Idle
    /\ myLikeWrites = [id \in RouteIds |-> 0]
    /\ callBudget = 0

\* ---------------------------------------------------------------- Home
recipesPerPage == 6

Digit(i) == <<"0", "1", "2", "3", "4", "5", "6", "7", "8", "9">>[(i % 10) + 1]

\* the sheet served to the list view: R1 .. R7, then titles without an r
TitleOf(i) == <<IF i <= 7 THEN "R" ELSE "b", Digit(i)>>
HomeRow(i) == [id |-> i, titulo |-> TitleOf(i), imagem |-> <<"a">>, likes |-> 0,
               categoria |-> <<"a">>]
HomeSheet(n) == [i \in 1..n |-> HomeRow(i)]

\* what the user may type into the search input
SearchTerms == {<<>>, <<"r">>, <<"R">>, <<"7">>, <<"b">>, <<"r", "1">>, <<"x">>}

\* GET /receitas: the transport fails, or the body holds the rows under
\* "receitas" (an empty sheet may come without the field)
ListResponses ==
    {[ok |-> FALSE], [ok |-> TRUE, data |-> [receitas |-> sheet]]}
    \cup (IF Len(sheet) = 0 THEN {[ok |-> TRUE, data |-> <<>>]} ELSE {})

\* getRecipes() on a response: throws, or the rows normalized in server order
getRecipes(resp) ==
    IF ~resp.ok THEN [throw |-> TRUE]
    ELSE LET receitas == IF "receitas" \in DOMAIN resp.data THEN resp.data.receitas
                         ELSE <<>>
         IN  [throw |-> FALSE,
              value |-> [i \in 1..Len(receitas) |-> normalizeRecipe(receitas[i])]]

\* String.prototype.toLowerCase over the letters in use
UpperLower == {<<"R", "r">>, <<"B", "b">>, <<"A", "a">>, <<"X", "x">>}
LowerChar(c) == IF \E p \in UpperLower : p[1] = c
                THEN (CHOOSE p \in UpperLower : p[1] = c)[2] ELSE c
toLowerCase(str) == [i \in 1..Len(str) |-> LowerChar(str[i])]

\* String.prototype.includes: needle occurs in str at some offset
includes(str, needle) ==
    \E k \in 0..(Len(str) - Len(needle)) :
        \A j \in 1..Len(needle) : str[k + j] = needle[j]

\* a mutant of TitleMatches: the search term is not lower-cased
TitleMatches_rawTerm(r) == includes(toLowerCase(r.titulo), searchTerm)

TitleMatches(r) == includes(toLowerCase(r.titulo), toLowerCase(searchTerm))

filteredRecipes == SelectSeq(recipes, TitleMatches)

\* Math.ceil(n / d) for n >= 0, d > 0
MathCeil(n, d) == IF n % d = 0 THEN n \div d ELSE (n \div d) + 1

totalPages == MathCeil(Len(filteredRecipes), recipesPerPage)

\* a mutant of startIndex: the page number is used as if it were 0-based
startIndex_zeroBased == currentPage * recipesPerPage

startIndex == (currentPage - 1) * recipesPerPage

\* Array.prototype.slice(start, end) with 0-based, end-exclusive indices
Slice(arr, start, end) ==
    LET len == Len(arr)
        from == IF start < 0 THEN (IF len + start < 0 THEN 0 ELSE len + start)
                ELSE (IF start > len THEN len ELSE start)
        to == IF end < 0 THEN (IF len + end < 0 THEN 0 ELSE len + end)
              ELSE (IF end > len THEN len ELSE end)
    IN  IF to <= from THEN <<>> ELSE [i \in 1..(to - from) |-> arr[from + i]]

paginatedRecipes == Slice(filteredRecipes, startIndex, startIndex + recipesPerPage)

\* the pagination bar is rendered
PaginationShown == ~hLoading /\ Len(paginatedRecipes) # 0 /\ totalPages > 1

\* useEffect(() => loadRecipes(), []) up to its await
HomeMounts == /\ recipes' = <<>> /\ hLoading' = TRUE /\ searchTerm' = <<>>
              /\ currentPage' = 1 /\ homeFetch' = TRUE

\* a mutant of loadRecipesResume: loading is cleared only when nothing threw
loadRecipesResume_noFinally ==
    /\ homeFetch
    /\ \E resp \in ListResponses :
          LET data == getRecipes(resp) IN
          /\ recipes' = IF data.throw THEN recipes ELSE data.value
          /\ hLoading' = IF data.throw THEN hLoading ELSE FALSE
    /\ homeFetch' = FALSE
    /\ UNCHANGED <<searchTerm, currentPage>>
    /\ UNCHANGED <<storeVars, notHome>>

\* loadRecipes after its await
loadRecipesResume ==
    /\ homeFetch
    /\ \E resp \in ListResponses :
          LET data == getRecipes(resp) IN
          recipes' = IF data.throw THEN recipes ELSE data.value
    /\ hLoading' = FALSE
    /\ homeFetch' = FALSE
    /\ UNCHANGED <<searchTerm, currentPage>>
    /\ UNCHANGED <<storeVars, notHome>>

\* a mutant of pageAfterSearch: the reset effect is missing
pageAfterSearch_noReset(value) == currentPage

\* useEffect(() => setCurrentPage(1), [searchTerm]): runs when the term changed
pageAfterSearch(value) == IF value # searchTerm THEN 1 ELSE currentPage

\* onChange of the search input: setSearchTerm(e.target.value), then the effect
SearchTyped(value) ==
    /\ route = "home"
    /\ searchTerm' = value
    /\ currentPage' = pageAfterSearch(value)
    /\ UNCHANGED <<recipes, hLoading, homeFetch>>
    /\ UNCHANGED <<storeVars, notHome>>

\* the X button, rendered while the term is not empty: setSearchTerm('')
SearchCleared ==
    /\ route = "home"
    /\ searchTerm # <<>>
    /\ searchTerm' = <<>>
    /\ currentPage' = pageAfterSearch(<<>>)
    /\ UNCHANGED <<recipes, hLoading, homeFetch>>
    /\ UNCHANGED <<storeVars, notHome>>

\* a mutant of PageClicked: the next button is not disabled on the last page
PageClicked_nextNeverDisabled ==
    /\ route = "home"
    /\ PaginationShown
    /\ \/ currentPage # 1 /\ currentPage' = currentPage - 1
       \/ currentPage' = currentPage + 1
       \/ \E index \in 0..(totalPages - 1) : currentPage' = index + 1
    /\ UNCHANGED <<recipes, hLoading, searchTerm, homeFetch>>
    /\ UNCHANGED <<storeVars, notHome>>

\* the previous, next and page-number buttons of the pagination bar
PageClicked ==
    /\ route = "home"
    /\ PaginationShown
    /\ \/ currentPage # 1 /\ currentPage' = currentPage - 1
       \/ currentPage # totalPages /\ currentPage' = currentPage + 1
       \/ \E index \in 0..(totalPages - 1) : currentPage' = index + 1
    /\ UNCHANGED <<recipes, hLoading, searchTerm, homeFetch>>
    /\ UNCHANGED <<storeVars, notHome>>

\* the list view leaves the screen: its state is gone and the GET of
\* loadRecipes ends without effect
HomeUnmounts == /\ recipes' = <<>> /\ hLoading' = TRUE /\ searchTerm' = <<>>
                /\ currentPage' = 1 /\ homeFetch' = FALSE

HomeIdle ==
    /\ recipes = <<>>
    /\ hLoading = TRUE
    /\ searchTerm = <<>>
    /\ currentPage = 1
    /\ homeFetch = FALSE

\* the view as mounted on /, loadRecipes awaiting the GET
HomeInit ==
    /\ recipes = <<>>
    /\ hLoading = TRUE
    /\ searchTerm = <<>>
    /\ currentPage = 1
    /\ homeFetch = TRUE

\* ------------------------------------------------------ AdminDashboard
\* the inputs the user types into; the other three keep what the modal put
\* there (the browser's own check of their required attribute is left out)
TypedFields == {"titulo", "imagem_url", "categoria_id"}

emptyForm == [titulo |-> <<>>, imagem_url |-> <<>>, tempo_preparo |-> <<>>,
              ingredientes |-> <<>>, instrucoes |-> <<>>, categoria_id |-> <<>>]

\* the categorias sheet; this system never writes it
CategorySheet == <<[id |-> 1, nome |-> <<"a">>]>>

\* GET /categorias
CategoryResponses == {[ok |-> FALSE], [ok |-> TRUE, data |-> [categorias |-> CategorySheet]]}

\* getCategories() on a response
getCategories(resp) ==
    IF ~resp.ok THEN [throw |-> TRUE]
    ELSE [throw |-> FALSE,
          value |-> IF "categorias" \in DOMAIN resp.data THEN resp.data.categorias
                    ELSE <<>>]

\* PUT /receitas/{id} and DELETE /receitas/{id} as the sheet applies them
SheetAfterDelete(id) ==
    LET keep == {i \in DOMAIN sheet : sheet[i].id # id}
        Rank(i) == Cardinality({k \in keep : k <= i})
    IN  [n \in 1..Cardinality(keep) |-> sheet[CHOOSE i \in keep : Rank(i) = n]]

\* loadData up to its await: setLoading(true), both GETs sent
loadDataStart ==
    /\ aLoading' = TRUE
    /\ aLoad' = Some([rec |-> None, cat |-> None])

\* the component mounts: every useState at its initial value, then loadData()
AdminMounts ==
    /\ aRecipes' = <<>>
    /\ categories' = <<>>
    /\ showModal' = FALSE
    /\ showDeleteModal' = FALSE
    /\ editingRecipe' = None
    /\ deletingRecipe' = None
    /\ saving' = FALSE
    /\ formData' = emptyForm
    /\ aCall' = None
    /\ aOrphans' = aOrphans
    /\ adminBudget' = adminBudget
    /\ loadDataStart

\* the suspended handler resumes after await loadData(): finally setSaving(false)
AfterLoadData ==
    IF aCall # None
    THEN saving' = FALSE /\ aCall' = None
    ELSE UNCHANGED <<saving, aCall>>

\* a mutant of AdminFetchDone: when one GET fails, what the other has already
\* fetched is still put in its collection
AdminFetchDone_keepsFetched(which) ==
    /\ aLoad # None
    /\ aLoad[1][which] = None
    /\ LET other == IF which = "rec" THEN "cat" ELSE "rec"
           Outcomes == IF which = "rec"
                       THEN {getRecipes(resp) : resp \in ListResponses}
                       ELSE {getCategories(resp) : resp \in CategoryResponses} IN
       \E data \in Outcomes :
          IF data.throw
          THEN /\ aLoading' = FALSE
               /\ aLoad' = None
               /\ aOrphans' = IF aLoad[1][other] = None THEN aOrphans + 1 ELSE aOrphans
               /\ AfterLoadData
               /\ aRecipes' = IF other = "rec" /\ aLoad[1].rec # None
                              THEN aLoad[1].rec[1] ELSE aRecipes
               /\ categories' = IF other = "cat" /\ aLoad[1].cat # None
                                 THEN aLoad[1].cat[1] ELSE categories
          ELSE IF aLoad[1][other] = None
          THEN /\ aLoad' = Some([aLoad[1] EXCEPT ![which] = Some(data.value)])
               /\ UNCHANGED <<aRecipes, categories, aLoading, aOrphans, saving, aCall>>
          ELSE /\ aRecipes' = IF which = "rec" THEN data.value ELSE aLoad[1].rec[1]
               /\ categories' = IF which = "cat" THEN data.value ELSE aLoad[1].cat[1]
               /\ aLoading' = FALSE
               /\ aLoad' = None
               /\ AfterLoadData
               /\ UNCHANGED aOrphans
    /\ UNCHANGED <<showModal, showDeleteModal, editingRecipe, deletingRecipe, formData,
                   adminBudget>>
    /\ UNCHANGED <<storeVars, notAdmin>>

\* one of loadData's two GETs completes; Promise.all settles when both have
\* succeeded or as soon as one fails
AdminFetchDone(which) ==
    /\ aLoad # None
    /\ aLoad[1][which] = None
    /\ LET other == IF which = "rec" THEN "cat" ELSE "rec"
           Outcomes == IF which = "rec"
                       THEN {getRecipes(resp) : resp \in ListResponses}
                       ELSE {getCategories(resp) : resp \in CategoryResponses} IN
       \E data \in Outcomes :
          IF data.throw
          THEN /\ aLoading' = FALSE
               /\ aLoad' = None
               /\ aOrphans' = IF aLoad[1][other] = None THEN aOrphans + 1 ELSE aOrphans
               /\ AfterLoadData
               /\ UNCHANGED <<aRecipes, categories>>
          ELSE IF aLoad[1][other] = None
          THEN /\ aLoad' = Some([aLoad[1] EXCEPT ![which] = Some(data.value)])
               /\ UNCHANGED <<aRecipes, categories, aLoading, aOrphans, saving, aCall>>
          ELSE /\ aRecipes' = IF which = "rec" THEN data.value ELSE aLoad[1].rec[1]
               /\ categories' = IF which = "cat" THEN data.value ELSE aLoad[1].cat[1]
               /\ aLoading' = FALSE
               /\ aLoad' = None
               /\ AfterLoadData
               /\ UNCHANGED aOrphans
    /\ UNCHANGED <<showModal, showDeleteModal, editingRecipe, deletingRecipe, formData,
                   adminBudget>>
    /\ UNCHANGED <<storeVars, notAdmin>>

\* a GET whose Promise.all has already rejected completes: nobody reads it
AdminOrphanDone ==
    /\ aOrphans > 0
    /\ aOrphans' = aOrphans - 1
    /\ UNCHANGED <<aRecipes, categories, aLoading, showModal, showDeleteModal,
                   editingRecipe, deletingRecipe, saving, formData, aCall, aLoad,
                   adminBudget>>
    /\ UNCHANGED <<storeVars, notAdmin>>

\* the dashboard (not the spinner) is rendered
DashboardShown == route = "admin" /\ ~aLoading

handleChange(name, value) ==
    /\ DashboardShown /\ showModal
    /\ formData' = [formData EXCEPT ![name] = value]
    /\ UNCHANGED <<aRecipes, categories, aLoading, showModal, showDeleteModal,
                   editingRecipe, deletingRecipe, saving, aCall, aLoad, aOrphans,
                   adminBudget>>
    /\ UNCHANGED <<storeVars, notAdmin>>

openAddModal ==
    /\ DashboardShown
    /\ editingRecipe' = None
    /\ formData' = emptyForm
    /\ showModal' = TRUE
    /\ UNCHANGED <<aRecipes, categories, aLoading, showDeleteModal, deletingRecipe,
                   saving, aCall, aLoad, aOrphans, adminBudget>>
    /\ UNCHANGED <<storeVars, notAdmin>>

openEditModal(r) ==
    /\ DashboardShown
    /\ editingRecipe' = Some(r)
    /\ formData' = [titulo |-> r.titulo, imagem_url |-> r.imagem_url,
                    tempo_preparo |-> r.tempo_preparo, ingredientes |-> r.ingredientes,
                    instrucoes |-> r.instrucoes,
                    categoria_id |-> OrText(r, "categoria", <<>>)]
    /\ showModal' = TRUE
    /\ UNCHANGED <<aRecipes, categories, aLoading, showDeleteModal, deletingRecipe,
                   saving, aCall, aLoad, aOrphans, adminBudget>>
    /\ UNCHANGED <<storeVars, notAdmin>>

openDeleteModal(r) ==
    /\ DashboardShown
    /\ deletingRecipe' = Some(r)
    /\ showDeleteModal' = TRUE
    /\ UNCHANGED <<aRecipes, categories, aLoading, showModal, editingRecipe, saving,
                   formData, aCall, aLoad, aOrphans, adminBudget>>
    /\ UNCHANGED <<storeVars, notAdmin>>

\* a mutant of closeModalSets: the form keeps what it held
closeModalSets_keepsForm ==
    /\ showModal' = FALSE
    /\ editingRecipe' = None
    /\ formData' = formData

\* closeModal's three setters
closeModalSets ==
    /\ showModal' = FALSE
    /\ editingRecipe' = None
    /\ formData' = emptyForm

closeModal ==
    /\ DashboardShown /\ showModal
    /\ closeModalSets
    /\ UNCHANGED <<aRecipes, categories, aLoading, showDeleteModal, deletingRecipe,
                   saving, aCall, aLoad, aOrphans, adminBudget>>
    /\ UNCHANGED <<storeVars, notAdmin>>

closeDeleteModalSets ==
    /\ showDeleteModal' = FALSE
    /\ deletingRecipe' = None

closeDeleteModal ==
    /\ DashboardShown /\ showDeleteModal
    /\ closeDeleteModalSets
    /\ UNCHANGED <<aRecipes, categories, aLoading, showModal, editingRecipe, saving,
                   formData, aCall, aLoad, aOrphans, adminBudget>>
    /\ UNCHANGED <<storeVars, notAdmin>>

\* a mutant of RequiredMissing: only the title is checked
RequiredMissing_titleOnly(form) == form.titulo = <<>>

\* handleSubmit's required-field check: !titulo || !imagem_url || !categoria_id
RequiredMissing(form) ==
    form.titulo = <<>> \/ form.imagem_url = <<>> \/ form.categoria_id = <<>>

\* a mutant of handleSubmit: the saving flag is not consulted
handleSubmit_noSavingGuard ==
    /\ DashboardShown /\ showModal
    /\ IF RequiredMissing(formData)
       THEN UNCHANGED vars
       ELSE /\ adminBudget > 0
            /\ saving' = TRUE
            /\ aCall' = Some([op |-> IF editingRecipe # None THEN "update" ELSE "create",
                              id |-> IF editingRecipe # None THEN editingRecipe[1].id ELSE 0,
                              form |-> formData, phase |-> "request"])
            /\ adminBudget' = adminBudget - 1
            /\ UNCHANGED <<aRecipes, categories, aLoading, showModal, showDeleteModal,
                           editingRecipe, deletingRecipe, formData, aLoad, aOrphans>>
            /\ UNCHANGED <<storeVars, notAdmin>>

\* handleSubmit up to its await
handleSubmit ==
    /\ DashboardShown /\ showModal
    /\ IF saving \/ RequiredMissing(formData)
       THEN UNCHANGED vars
       ELSE /\ adminBudget > 0
            /\ saving' = TRUE
            /\ aCall' = Some([op |-> IF editingRecipe # None THEN "update" ELSE "create",
                              id |-> IF editingRecipe # None THEN editingRecipe[1].id ELSE 0,
                              form |-> formData, phase |-> "request"])
            /\ adminBudget' = adminBudget - 1
            /\ UNCHANGED <<aRecipes, categories, aLoading, showModal, showDeleteModal,
                           editingRecipe, deletingRecipe, formData, aLoad, aOrphans>>
            /\ UNCHANGED <<storeVars, notAdmin>>

\* setRecipes(prev => prev.map(r => r.id === editingRecipe.id ? updatedRecipe : r))
recipesAfterUpdate(prev, id, updatedRecipe) ==
    [i \in 1..Len(prev) |-> IF prev[i].id = id THEN updatedRecipe ELSE prev[i]]

\* a mutant of recipesAfterCreate: the new recipe goes first
recipesAfterCreate_prepends(prev, newRecipe) == <<newRecipe>> \o prev

\* setRecipes(prev => [...prev, newRecipe])
recipesAfterCreate(prev, newRecipe) == Append(prev, newRecipe)

\* a mutant of ReloadAfterFailure: the catch only logs
ReloadAfterFailure_onlyLogs ==
    /\ aCall' = None
    /\ saving' = FALSE
    /\ UNCHANGED <<aRecipes, aLoading, aLoad, showModal, showDeleteModal, editingRecipe,
                   deletingRecipe, formData, sheet>>

\* the catch of handleSubmit and handleDelete: await loadData()
ReloadAfterFailure ==
    /\ aCall' = Some([aCall[1] EXCEPT !.phase = "reload"])
    /\ loadDataStart
    /\ UNCHANGED <<aRecipes, showModal, showDeleteModal, editingRecipe, deletingRecipe,
                   saving, formData, sheet>>

\* the request of a dashboard that has left the screen ends: the sheet has
\* applied it or not, and no setter of the handler has any effect
RequestEndsUnmounted ==
    /\ aCall' = None
    /\ UNCHANGED <<aRecipes, aLoading, aLoad, showModal, showDeleteModal, editingRecipe,
                   deletingRecipe, saving, formData>>

\* createRecipe / updateRecipe returns or throws, and handleSubmit resumes
SubmitDone ==
    /\ aCall # None /\ aCall[1].phase = "request" /\ aCall[1].op \in {"create", "update"}
    /\ LET c == aCall[1] IN
       \/ /\ c.op = "create"
          /\ sheet' = SheetAfterPost(createBody(c.form))
          /\ IF route # "admin" THEN RequestEndsUnmounted
             ELSE /\ aRecipes' = recipesAfterCreate(aRecipes,
                              normalizeRecipe([id |-> NextRowId] @@ createBody(c.form)))
                  /\ closeModalSets
                  /\ saving' = FALSE /\ aCall' = None
                  /\ UNCHANGED <<aLoading, aLoad, showDeleteModal, deletingRecipe>>
       \/ /\ c.op = "update" /\ HasRow(c.id)
          /\ sheet' = SheetAfterPut(c.id, denormalizeRecipe(c.form))
          /\ IF route # "admin" THEN RequestEndsUnmounted
             ELSE /\ aRecipes' = recipesAfterUpdate(aRecipes, c.id,
                              normalizeRecipe(denormalizeRecipe(c.form) @@ RowOf(c.id)))
                  /\ closeModalSets
                  /\ saving' = FALSE /\ aCall' = None
                  /\ UNCHANGED <<aLoading, aLoad, showDeleteModal, deletingRecipe>>
       \/ IF route # "admin" THEN RequestEndsUnmounted /\ UNCHANGED sheet
          ELSE ReloadAfterFailure
    /\ UNCHANGED <<categories, aOrphans, adminBudget>>
    /\ UNCHANGED <<likedRecipes, authToken, notAdmin>>

\* handleDelete up to its await; the confirm button is disabled while saving
handleDelete ==
    /\ DashboardShown /\ showDeleteModal /\ ~saving
    /\ IF deletingRecipe = None
       THEN UNCHANGED vars
       ELSE /\ adminBudget > 0
            /\ saving' = TRUE
            /\ aCall' = Some([op |-> "delete", id |-> deletingRecipe[1].id,
                              form |-> emptyForm, phase |-> "request"])
            /\ adminBudget' = adminBudget - 1
            /\ UNCHANGED <<aRecipes, categories, aLoading, showModal, showDeleteModal,
                           editingRecipe, deletingRecipe, formData, aLoad, aOrphans>>
            /\ UNCHANGED <<storeVars, notAdmin>>

\* a mutant of recipesAfterDelete: the entries after the deleted one go too
recipesAfterDelete_truncates(prev, id) ==
    LET hit == {i \in 1..Len(prev) : prev[i].id = id}
    IN  IF hit = {} THEN prev
        ELSE SubSeq(prev, 1, (CHOOSE i \in hit : \A k \in hit : i <= k) - 1)

\* setRecipes(prev => prev.filter(r => r.id !== deletingRecipe.id))
recipesAfterDelete(prev, id) ==
    LET Keep(r) == r.id # id IN SelectSeq(prev, Keep)

\* deleteRecipe returns or throws, and handleDelete resumes
DeleteDone ==
    /\ aCall # None /\ aCall[1].phase = "request" /\ aCall[1].op = "delete"
    /\ LET c == aCall[1] IN
       \/ /\ HasRow(c.id)
          /\ sheet' = SheetAfterDelete(c.id)
          /\ IF route # "admin" THEN RequestEndsUnmounted
             ELSE /\ aRecipes' = recipesAfterDelete(aRecipes, c.id)
                  /\ closeDeleteModalSets
                  /\ saving' = FALSE /\ aCall' = None
                  /\ UNCHANGED <<aLoading, aLoad, showModal, editingRecipe, formData>>
       \/ IF route # "admin" THEN RequestEndsUnmounted /\ UNCHANGED sheet
          ELSE ReloadAfterFailure
    /\ UNCHANGED <<categories, aOrphans, adminBudget>>
    /\ UNCHANGED <<likedRecipes, authToken, notAdmin>>

\* the dashboard leaves the screen: its state is gone and the GETs of loadData
\* end without effect; a create / update / delete request in flight goes on
AdminUnmounts ==
    /\ aRecipes' = <<>>
    /\ categories' = <<>>
    /\ aLoading' = TRUE
    /\ showModal' = FALSE
    /\ showDeleteModal' = FALSE
    /\ editingRecipe' = None
    /\ deletingRecipe' = None
    /\ saving' = FALSE
    /\ formData' = emptyForm
    /\ aCall' = IF aCall # None /\ aCall[1].phase = "request" THEN aCall ELSE None
    /\ aLoad' = None
    /\ aOrphans' = 0
    /\ UNCHANGED adminBudget

AdminIdle ==
    /\ aRecipes = <<>>
    /\ categories = <<>>
    /\ aLoading = TRUE
    /\ showModal = FALSE
    /\ showDeleteModal = FALSE
    /\ editingRecipe = None
    /\ deletingRecipe = None
    /\ saving = FALSE
    /\ formData = emptyForm
    /\ aCall = None
    /\ aLoad = None
    /\ aOrphans = 0
    /\ adminBudget = MaxAdminOps

\* the view as mounted on /admin, loadData awaiting its two GETs
AdminInit ==
    /\ aRecipes = <<>>
    /\ categories = <<>>
    /\ aLoading = TRUE
    /\ showModal = FALSE
    /\ showDeleteModal = FALSE
    /\ editingRecipe = None
    /\ deletingRecipe = None
    /\ saving = FALSE
    /\ formData = emptyForm
    /\ aCall = None
    /\ aLoad = Some([rec |-> None, cat |-> None])
    /\ aOrphans = 0
    /\ adminBudget = MaxAdminOps

\* ------------------------------------------- login, logout, Navbar, Login
\* what the user may type into the username and password inputs
Typed == {"admin", "Admin", "wrong"}

\* the attempts made from another page of the same browser
OtherAttempts == {<<"admin", "admin">>, <<"admin", "wrong">>}

\* the value Date.now() yields in this visit; a token kept from an earlier
\* visit carries stamp 0
Clock == {1}

\* 'fake_jwt_token_' + Date.now()
Token(now) == [prefix |-> "fake_jwt_token_", stamp |-> now]

\* isAuthenticated(): !!localStorage.getItem('auth_token')
isAuthenticated == authToken # None

\* a mutant of login: only the username is compared
login_userOnly(username, password, now) ==
    IF username = "admin"
    THEN [stored |-> Some(Token(now)), result |-> [success |-> TRUE, token |-> Token(now)]]
    ELSE [stored |-> authToken,
          result |-> [success |-> FALSE, error |-> "Credenciais invalidas"]]

\* a mutant of login: a failed attempt clears the stored token
login_clearsOnFailure(username, password, now) ==
    IF username = "admin" /\ password = "admin"
    THEN [stored |-> Some(Token(now)), result |-> [success |-> TRUE, token |-> Token(now)]]
    ELSE [stored |-> None,
          result |-> [success |-> FALSE, error |-> "Credenciais invalidas"]]

\* login(username, password) after its delay: what localStorage 'auth_token'
\* holds afterwards, and the object returned
login(username, password, now) ==
    IF username = "admin" /\ password = "admin"
    THEN [stored |-> Some(Token(now)), result |-> [success |-> TRUE, token |-> Token(now)]]
    ELSE [stored |-> authToken,
          result |-> [success |-> FALSE, error |-> "Credenciais invalidas"]]

\* logout(): localStorage.removeItem('auth_token'); the value stored afterwards
logout == None

\* a mutant of PrivateRoute: the children are rendered whatever is stored
PrivateRoute_open(stored) == "admin"

\* PrivateRoute around /admin, for the token stored when it renders
PrivateRoute(stored) == IF stored # None THEN "admin" ELSE "login"

\* Login.handleChange: one input changes, the error message is cleared
LoginTyped(name, value) ==
    /\ route = "login"
    /\ credentials' = [credentials EXCEPT ![name] = value]
    /\ loginError' = ""
    /\ UNCHANGED <<loginLoading, loginCall>>
    /\ UNCHANGED <<storeVars, navVars, homeVars, adminVars, notSession>>

\* Login.handleSubmit up to its await; both inputs are required and the
\* button is disabled while loading
LoginSubmit ==
    /\ route = "login"
    /\ ~loginLoading
    /\ credentials.username # "" /\ credentials.password # ""
    /\ loginError' = ""
    /\ loginLoading' = TRUE
    /\ loginCall' = Some(credentials)
    /\ UNCHANGED credentials
    /\ UNCHANGED <<storeVars, navVars, homeVars, adminVars, notSession>>

\* a login form left open in another page of the browser has its login call
\* return; while this page shows the login form no other page does
OtherPageLogin(username, password) ==
    /\ route # "login"
    /\ \E now \in Clock : authToken' = login(username, password, now).stored
    /\ UNCHANGED <<sheet, likedRecipes, navVars, loginVars, homeVars, adminVars, notSession>>

\* the Login page leaves the screen
LoginUnmounts ==
    /\ credentials' = [username |-> "", password |-> ""]
    /\ loginError' = ""
    /\ loginLoading' = FALSE

\* login returns and Login.handleSubmit resumes: navigate('/admin') through
\* PrivateRoute, or setError; finally setLoading(false)
LoginReturns ==
    /\ loginCall # None
    /\ \E now \in Clock :
          LET c == loginCall[1]
              r == login(c.username, c.password, now) IN
          /\ authToken' = r.stored
          /\ IF r.result.success /\ PrivateRoute(r.stored) = "admin"
             THEN /\ route' = "admin"
                  /\ loggedIn' = (r.stored # None)
                  /\ AdminMounts
                  /\ LoginUnmounts
             ELSE /\ loginError' = IF r.result.success THEN loginError ELSE r.result.error
                  /\ loginLoading' = FALSE
                  /\ UNCHANGED <<route, loggedIn, credentials, adminVars>>
    /\ loginCall' = None
    /\ UNCHANGED <<logoutFlip, sheet, likedRecipes>>
    /\ UNCHANGED <<homeVars, notSession>>

\* Navbar.handleLogout, offered while loggedIn: logout(), navigate('/'). The
\* page shown leaves the screen and Home mounts, unless Home is shown already
NavbarLogout ==
    /\ loggedIn
    /\ route # "login"
    /\ authToken' = logout
    /\ logoutFlip' = ~logoutFlip
    /\ route' = "home"
    /\ loggedIn' = (logout # None)
    /\ IF route = "home" THEN UNCHANGED homeVars ELSE HomeMounts
    /\ IF route = "detail" THEN DetailUnmounts ELSE UNCHANGED detailVars
    /\ IF route = "admin" THEN AdminUnmounts ELSE UNCHANGED adminVars
    /\ UNCHANGED <<sheet, likedRecipes, loginVars, apiVars>>

\* the user enters /admin (the Dashboard link, or the address) from another
\* page: PrivateRoute renders the dashboard, or <Navigate to="/login" replace />
\* and a fresh login form. The user waits for a login call or an admin
\* request still in flight to end first.
GoAdmin ==
    /\ route # "admin"
    /\ loginCall = None /\ aCall = None
    /\ route' = PrivateRoute(authToken)
    /\ loggedIn' = isAuthenticated
    /\ IF PrivateRoute(authToken) = "admin" THEN AdminMounts ELSE UNCHANGED adminVars
    /\ LoginUnmounts
    /\ IF route = "home" THEN HomeUnmounts ELSE UNCHANGED homeVars
    /\ IF route = "detail" THEN DetailUnmounts ELSE UNCHANGED detailVars
    /\ UNCHANGED <<storeVars, logoutFlip, loginCall, apiVars>>

LoginIdle ==
    /\ credentials = [username |-> "", password |-> ""]
    /\ loginError = ""
    /\ loginLoading = FALSE
    /\ loginCall = None

\* --------------------------------------------------------- specifications
NavAt(r) == route = r /\ loggedIn = isAuthenticated /\ logoutFlip = FALSE

\* api.js alone: an input is drawn, one of the functions is applied to it
InitApi == ApiInputs /\ StoreInit /\ DetailIdle /\ NavAt("none") /\ LoginIdle /\ HomeIdle
           /\ AdminIdle
NextApi ==
    \/ ApplyNormalize
    \/ ApplyDenormalize
    \/ ApplyCreate
SpecApi == InitApi /\ [][NextApi]_vars

\* /receita/:id with this client's view and the other clients' likes
InitDetail == ApiIdle /\ StoreInit /\ DetailInit /\ NavAt("detail") /\ LoginIdle /\ HomeIdle
              /\ AdminIdle
NextDetail ==
    \/ \E id \in RouteIds : RouteChange(id)
    \/ \E id \in RouteIds : LoadDone(id)
    \/ handleLike
    \/ \E c \in Others, id \in RecipeIds : OtherLike(c, id)
    \/ \E c \in Clients : LikeGet(c)
    \/ \E c \in Clients : LikePut(c)
SpecDetail == InitDetail /\ [][NextDetail]_vars

\* / with a sheet of any length up to MaxHomeRecipes
InitHome ==
    /\ \E n \in 0..MaxHomeRecipes : sheet = HomeSheet(n)
    /\ likedRecipes = <<>>
    /\ authToken = None
    /\ ApiIdle /\ DetailIdle /\ NavAt("home") /\ LoginIdle /\ HomeInit /\ AdminIdle
NextHome ==
    \/ loadRecipesResume
    \/ \E value \in SearchTerms : SearchTyped(value)
    \/ SearchCleared
    \/ PageClicked
SpecHome == InitHome /\ [][NextHome]_vars

\* the same, with the GET of loadRecipes settling: axios resolves or rejects
\* the promise and the handler then runs to its end
SpecHomeLive == InitHome /\ [][NextHome]_vars /\ WF_vars(loadRecipesResume)

\* /admin, reached by a client that holds a token
InitAdmin ==
    /\ ApiIdle /\ DetailIdle /\ LoginIdle /\ HomeIdle /\ AdminInit
    /\ sheet = InitialSheet
    /\ likedRecipes = <<>>
    /\ authToken = Some(Token(1))
    /\ NavAt("admin")
NextAdmin ==
    \/ \E which \in {"rec", "cat"} : AdminFetchDone(which)
    \/ AdminOrphanDone
    \/ \E name \in TypedFields, value \in Texts : handleChange(name, value)
    \/ openAddModal
    \/ \E i \in 1..Len(aRecipes) : openEditModal(aRecipes[i])
    \/ \E i \in 1..Len(aRecipes) : openDeleteModal(aRecipes[i])
    \/ closeModal
    \/ closeDeleteModal
    \/ handleSubmit
    \/ SubmitDone
    \/ handleDelete
    \/ DeleteDone
SpecAdmin == InitAdmin /\ [][NextAdmin]_vars

\* the whole site in one page of the browser, loaded on any route with or
\* without a token kept from an earlier visit: /admin loads only with a token,
\* and the login form is shown only without one
InitApp ==
    /\ sheet = InitialSheet
    /\ likedRecipes = <<>>
    /\ authToken \in {None, Some(Token(0))}
    /\ route \in {"home", "detail", "login", "admin"}
    /\ route = "admin" => PrivateRoute(authToken) = "admin"
    /\ route = "login" => ~isAuthenticated
    /\ loggedIn = isAuthenticated
    /\ logoutFlip = FALSE
    /\ ApiIdle /\ LoginIdle
    /\ IF route = "detail" THEN DetailInit ELSE DetailIdle
    /\ IF route = "home" THEN HomeInit ELSE HomeIdle
    /\ IF route = "admin" THEN AdminInit ELSE AdminIdle
NextApp ==
    \/ \E name \in {"username", "password"}, value \in Typed : LoginTyped(name, value)
    \/ LoginSubmit
    \/ \E a \in OtherAttempts : OtherPageLogin(a[1], a[2])
    \/ LoginReturns
    \/ NavbarLogout
    \/ \E id \in RouteIds : LoadDone(id)
    \/ handleLike
    \/ LikeGet(Me)
    \/ LikePut(Me)
    \/ loadRecipesResume
    \/ \E value \in SearchTerms : SearchTyped(value)
    \/ SearchCleared
    \/ \E which \in {"rec", "cat"} : AdminFetchDone(which)
    \/ AdminOrphanDone
    \/ \E name \in TypedFields, value \in Texts : handleChange(name, value)
    \/ openAddModal
    \/ \E i \in 1..Len(aRecipes) : openEditModal(aRecipes[i])
    \/ \E i \in 1..Len(aRecipes) : openDeleteModal(aRecipes[i])
    \/ closeModal
    \/ closeDeleteModal
    \/ handleSubmit
    \/ SubmitDone
    \/ handleDelete
    \/ DeleteDone
SpecApp == InitApp /\ [][NextApp]_vars

\* one sheet under an admin's dashboard and the other clients' likes: the
\* admin edits titles and saves recipes while likeRecipe calls of other
\* clients read and write the same rows
InitShared ==
    /\ ApiIdle /\ LoginIdle /\ HomeIdle /\ AdminInit
    /\ sheet = InitialSheet
    /\ likedRecipes = <<>>
    /\ authToken = Some(Token(1))
    /\ NavAt("admin")
    /\ routeId = 1 /\ recipe = None /\ dLoading = TRUE /\ likes = 0
    /\ isLiking = FALSE /\ liked = FALSE /\ loadCalls = NoLoads
    /\ likeCalls = Idle
    /\ myLikeWrites = [id \in RouteIds |-> 0]
    /\ callBudget = MaxLikeCalls
NextShared ==
    \/ \E which \in {"rec", "cat"} : AdminFetchDone(which)
    \/ AdminOrphanDone
    \/ \E value \in Texts : handleChange("titulo", value)
    \/ \E i \in 1..Len(aRecipes) : openEditModal(aRecipes[i])
    \/ handleSubmit
    \/ SubmitDone
    \/ \E c \in Others, id \in RecipeIds : OtherLike(c, id)
    \/ \E c \in Others : LikeGet(c)
    \/ \E c \in Others : LikePut(c)
SpecShared == InitShared /\ [][NextShared]_vars

\* the router and the session alone: the page is loaded on any route, the user
\* logs in and out and enters /admin, and the pages shown load their data;
\* what the views do once loaded is left to the specifications above
NextGate ==
    \/ \E name \in {"username", "password"}, value \in Typed : LoginTyped(name, value)
    \/ LoginSubmit
    \/ \E a \in OtherAttempts : OtherPageLogin(a[1], a[2])
    \/ LoginReturns
    \/ NavbarLogout
    \/ GoAdmin
    \/ \E id \in RouteIds : LoadDone(id)
    \/ loadRecipesResume
    \/ \E which \in {"rec", "cat"} : AdminFetchDone(which)
    \/ AdminOrphanDone
SpecGate == InitApp /\ [][NextGate]_vars

\* ----------------------------------------------------------------- claims
\* C1: for this client and every recipe id, at most one like write reaches the
\* remote store, and a like attempt made once the id is in the persisted
\* liked-set starts no request and leaves the displayed like count as it was.
C1_AtMostOneLikeWrite ==
    [][/\ \A id \in RouteIds : myLikeWrites'[id] <= 1
       /\ (route = "detail" /\ ButtonShown /\ Includes(likedRecipes, routeId))
             => (likeCalls[Me] = None => likeCalls'[Me] = None)
       /\ (likeCalls[Me] = None /\ likeCalls'[Me] # None)
             => ~Includes(likedRecipes, likeCalls'[Me][1].id)]_vars

\* C2: the like count stored for a recipe never decreases: after every step
\* each row's like count is at least what it was before the step.
C2_LikeCountNeverDecreases ==
    [][\A i \in DOMAIN sheet :
          OrNum(sheet'[i], "likes", 0) >= OrNum(sheet[i], "likes", 0)]_vars

\* C3 as stated: denormalizeRecipe(normalizeRecipe(r)) equals r on every
\* storage field (id, titulo, imagem, tempo, ingredientes, preparacao, likes,
\* categoria), and in normalizeRecipe(r) categoria_id equals categoria.
C3_RoundTripEveryStorageField ==
    /\ apiOp = "normalizeRecipe" => apiRes.categoria_id = apiRes.categoria
    /\ apiOp = "denormalizeRecipe" =>
          \A f \in ({"id", "likes"} \cup TextFields) \cap DOMAIN apiArg :
              f \in DOMAIN apiRes /\ apiRes[f] = apiArg[f]

\* C3 amended: denormalizeRecipe(normalizeRecipe(r)) has exactly the six fields
\* titulo, imagem, tempo, ingredientes, preparacao, categoria (neither id nor
\* likes), each with r's value, or '' where r lacks the field; in
\* normalizeRecipe(r) categoria_id equals categoria when r.categoria is a
\* non-empty text, otherwise categoria_id is '' while categoria is 'Sem categoria'.
C3_RoundTripFormFields ==
    /\ apiOp = "normalizeRecipe" =>
          IF "categoria" \in DOMAIN apiArg /\ apiArg.categoria # <<>>
          THEN apiRes.categoria_id = apiArg.categoria /\ apiRes.categoria = apiArg.categoria
          ELSE apiRes.categoria_id = <<>> /\ apiRes.categoria = SemCategoria
    /\ apiOp = "denormalizeRecipe" =>
          /\ DOMAIN apiRes = TextFields
          /\ \A f \in TextFields :
                apiRes[f] = IF f \in DOMAIN apiArg THEN apiArg[f] ELSE <<>>

\* the round trip was taken on a row with a like count and without a categoria
C3_Witness ==
    /\ apiOp = "denormalizeRecipe"
    /\ "categoria" \notin DOMAIN apiArg
    /\ "likes" \in DOMAIN apiArg /\ apiArg.likes > 0

\* C4: whatever like count the submitted form carries, the record createRecipe
\* sends has likes = 0 and the row the sheet stores for it has likes = 0.
C4_CreateSendsZeroLikes ==
    apiOp = "createRecipe" =>
        /\ apiRes.likes = 0
        /\ Len(sheet) = Len(InitialSheet) + 1
        /\ sheet[Len(sheet)].likes = 0

\* createRecipe was called with a form that carries a like count above 0
C4_Witness ==
    /\ apiOp = "createRecipe"
    /\ "likes" \in DOMAIN apiArg /\ apiArg.likes > 0

\* C5: when a delete request of the dashboard succeeds, the local collection
\* is the previous one without the entries whose id is the deleted id: every
\* other entry is kept, in the same order, with the same field values.
C5_DeleteRemovesOnlyThatId ==
    [][(aCall # None /\ aCall[1].op = "delete" /\ aCall[1].phase = "request"
        /\ aCall' = None /\ route = "admin")
       => LET d == aCall[1].id
              Gone(i) == Cardinality({k \in 1..i : aRecipes[k].id = d})
          IN  /\ Len(aRecipes') = Len(aRecipes) - Gone(Len(aRecipes))
              /\ \A i \in 1..Len(aRecipes) :
                    aRecipes[i].id # d => aRecipes'[i - Gone(i)] = aRecipes[i]]_vars

\* the first of two entries was deleted and the second is what the list holds
C5_Witness ==
    /\ route = "admin" /\ aCall = None /\ ~aLoading
    /\ Len(sheet) = 1 /\ sheet[1].id = 2
    /\ Len(aRecipes) = 1 /\ aRecipes[1].id = 2
    /\ adminBudget = MaxAdminOps - 1

\* C6: every step of the list view that changes the search text, by typing or
\* by the clear button, leaves the current page at 1.
C6_SearchChangeResetsPage ==
    [][searchTerm' # searchTerm => currentPage' = 1]_vars

\* a search text is in place, on page 1 of a filtered list of several pages
C6_Witness ==
    /\ ~hLoading /\ searchTerm = <<"r">>
    /\ currentPage = 1 /\ totalPages > 1

\* C7: page p of the filtered list shows its entries at positions 6(p-1)+1 ..
\* min(6p, n) in server order; with the seven recipes R1..R7 page 1 shows
\* R1..R6 and page 2 shows R7, and clearing the search on page 2 leaves the
\* view on page 1 showing R1..R6.
C7_PageShowsItsSlice ==
    [][LET Titles(rs) == [k \in 1..Len(rs) |-> rs[k].titulo]
           R(a, b) == [k \in 1..(b - a + 1) |-> TitleOf(a + k - 1)]
       IN
       /\ LET n == Len(filteredRecipes')
              lo == 6 * (currentPage' - 1)
              hi == IF 6 * currentPage' < n THEN 6 * currentPage' ELSE n
          IN  /\ Len(paginatedRecipes') = IF hi > lo THEN hi - lo ELSE 0
              /\ \A k \in 1..Len(paginatedRecipes') :
                    paginatedRecipes'[k] = filteredRecipes'[lo + k]
       /\ (Len(recipes') = 7 /\ Len(filteredRecipes') = 7)
             => /\ currentPage' = 1 => Titles(paginatedRecipes') = R(1, 6)
                /\ currentPage' = 2 => Titles(paginatedRecipes') = R(7, 7)
       /\ (Len(recipes) = 7 /\ currentPage = 2 /\ searchTerm # <<>> /\ searchTerm' = <<>>)
             => currentPage' = 1 /\ Titles(paginatedRecipes') = R(1, 6)]_vars

\* the seven recipes are loaded, a search text is in place and page 2 shows R7
C7_Witness ==
    /\ Len(recipes) = 7 /\ searchTerm = <<"r">> /\ currentPage = 2
    /\ Len(paginatedRecipes) = 1 /\ paginatedRecipes[1].titulo = TitleOf(7)

\* C8: the filtered list holds exactly the recipes, in order, whose title
\* contains the search text as a substring up to letter case; the page count
\* is the least k with 6k >= the filtered count; when no title matches, the
\* visible set is empty and the page count is 0.
C8_FilterAndPageCount ==
    LET SameLetter(a, b) ==
            a = b \/ \E p \in UpperLower : {a, b} \subseteq {p[1], p[2]}
        Contains(r) ==
            \E k \in 0..(Len(r.titulo) - Len(searchTerm)) :
                \A j \in 1..Len(searchTerm) : SameLetter(r.titulo[k + j], searchTerm[j])
        n == Len(filteredRecipes)
    IN  /\ filteredRecipes = SelectSeq(recipes, Contains)
        /\ totalPages >= 0
        /\ 6 * totalPages >= n
        /\ totalPages > 0 => 6 * (totalPages - 1) < n
        /\ n = 0 => Len(paginatedRecipes) = 0 /\ totalPages = 0

\* a lower-case search text selects the seven upper-case titles out of more
C8_Witness ==
    /\ ~hLoading /\ searchTerm = <<"r">>
    /\ Len(recipes) > 7 /\ Len(filteredRecipes) = 7

\* C9: a login call of the login form succeeds, storing a token and leading to
\* /admin, exactly when username and password are both "admin"; for every other
\* pair it fails with a non-empty message, and the stored token is what it was.
C9_LoginIffAdminAdmin ==
    [][(loginCall # None /\ loginCall' = None)
       => IF loginCall[1].username = "admin" /\ loginCall[1].password = "admin"
          THEN authToken' # None /\ route' = "admin" /\ loggedIn'
          ELSE authToken' = authToken /\ loginError' # "" /\ route' = "login"]_vars

\* a login with the right username and another password has failed
C9_Witness ==
    /\ route = "login" /\ loginCall = None /\ loginError # ""
    /\ credentials.username = "admin" /\ credentials.password = "Admin"
    /\ authToken = None

\* C10: isAuthenticated() is true exactly when a token is stored; every logout
\* leaves no token stored; and a stored token stays stored through every step
\* that is not a logout (failed logins, page loads, likes, admin requests).
C10_TokenStaysUntilLogout ==
    [][/\ isAuthenticated <=> authToken # None
       /\ isAuthenticated' <=> authToken' # None
       /\ logoutFlip' # logoutFlip => authToken' = None
       /\ (isAuthenticated /\ logoutFlip' = logoutFlip) => isAuthenticated']_vars

\* logged in through the login form, then a recipe was created from /admin
C10_Witness ==
    /\ authToken = Some(Token(1)) /\ ~logoutFlip
    /\ route = "admin" /\ aCall = None
    /\ Len(sheet) = Len(InitialSheet) + 1

\* C11: the dashboard is on screen only with a token stored when /admin is
\* rendered; entering /admin without a token leads to the login form and mounts
\* no dashboard; a logout leaves the dashboard off screen, and it comes back
\* only with a token stored again by a later successful login.
C11_AdminOnlyWithToken ==
    [][/\ route' = "admin" => authToken' # None
       /\ (route' # route /\ authToken' = None /\ logoutFlip' = logoutFlip)
             => route' = "login"
       /\ logoutFlip' # logoutFlip => route' # "admin"
       /\ route' # "admin" => (aLoad' = None /\ aLoading' /\ aRecipes' = <<>>)]_vars

\* after a logout a later login has brought the dashboard back
C11_Witness ==
    /\ logoutFlip /\ route = "admin" /\ ~aLoading
    /\ authToken = Some(Token(1))

\* C12: when the load of the id the route names ends (no other load in
\* flight) and the store reports no such record, by a null record or a failed
\* fetch, the view is in the not-found state: loading false, no recipe shown.
\* This holds on the first entry and on re-entry by a change of the route id.
C12_AbsentEndsNotFound ==
    [][\A id \in RouteIds :
          (id = routeId /\ LoadsInFlight = 1 /\ loadCalls[id] = 1 /\ loadCalls'[id] = 0)
          => /\ ~dLoading'
             /\ IF HasRow(id)
                THEN recipe' \in {None, Some(normalizeRecipe(RowOf(id)))}
                ELSE recipe' = None]_vars

\* C13: a submit of the form with an empty title, image URL or category
\* sends no request, leaves the local collection as it was and does not set
\* the saving flag: every create or update request that starts carries a form
\* with the three fields filled in, and the flag is set only as a request starts.
C13_NoRequestWithoutRequiredFields ==
    [][/\ (aCall = None /\ aCall' # None /\ aCall'[1].op \in {"create", "update"})
             => /\ formData.titulo # <<>>
                /\ formData.imagem_url # <<>>
                /\ formData.categoria_id # <<>>
                /\ aCall'[1].form = formData
                /\ aRecipes' = aRecipes
       /\ (~saving /\ saving') => (aCall = None /\ aCall' # None)]_vars

\* the form is open with only the title missing, and nothing is being saved
C13_Witness ==
    /\ route = "admin" /\ ~aLoading /\ showModal /\ ~saving /\ aCall = None
    /\ formData.titulo = <<>>
    /\ formData.imagem_url # <<>> /\ formData.categoria_id # <<>>
    /\ adminBudget > 0

\* C14: the dashboard has at most one create, update or delete request in
\* flight: the saving flag is set for as long as one is, and while it is set
\* no step starts another request or replaces the one in flight.
C14_OneRequestInFlight ==
    [][/\ aCall' # None => saving'
       /\ saving => aCall # None
       /\ (aCall # None /\ aCall' # None)
             => /\ aCall'[1].op = aCall[1].op
                /\ aCall'[1].id = aCall[1].id
                /\ aCall'[1].form = aCall[1].form
                /\ adminBudget' = adminBudget]_vars

\* a request is in flight while the form is open, filled in and could be
\* submitted again
C14_Witness ==
    /\ route = "admin" /\ ~aLoading /\ showModal /\ saving
    /\ aCall # None /\ aCall[1].phase = "request"
    /\ ~RequiredMissing(formData)
    /\ adminBudget > 0

\* C15: a likeRecipe PUT that succeeds stores the count its call computed
\* from its own earlier read, whatever the row holds by then (last write
\* wins); so when two clients read the same count, both calls succeed with the
\* same new count and the stored count ends 1 above the start.
C15_LastWriteWins ==
    [][\A c \in Clients :
          (likeCalls[c] # None /\ likeCalls[c][1].phase = "put" /\ likeCalls'[c] = None
           /\ sheet' # sheet)
          => /\ \E i \in DOMAIN sheet' : sheet'[i].id = likeCalls[c][1].id
             /\ \A i \in DOMAIN sheet' :
                   sheet'[i].id = likeCalls[c][1].id
                   => /\ "likes" \in DOMAIN sheet'[i]
                      /\ sheet'[i].likes = likeCalls[c][1].newLikes]_vars

\* both clients read 0 likes of recipe 1; this client's call has succeeded
\* with 1, 1 is stored, and the other client's PUT of 1 is on its way
C15_Witness ==
    /\ liked /\ likes = 1 /\ likedRecipes = <<1>> /\ myLikeWrites[1] = 1
    /\ likeCalls[Me] = None
    /\ RowOf(1).likes = 1
    /\ likeCalls["other"] = Some([id |-> 1, phase |-> "put", newLikes |-> 1])

\* C16: likeRecipe(id) reads the row; when there is one it sends a PUT whose
\* only effect on the sheet is likes = the count read + 1 (a missing count is
\* 0) in that row, every other cell and row as before, and returns that value;
\* when the read finds no row it returns null and sends no PUT.
C16_LikeTouchesOnlyLikes ==
    [][\A c \in Clients :
          LET call == likeCalls[c][1]
              Ended == likeCalls'[c] = None
          IN
          /\ (likeCalls[c] # None /\ call.phase = "get" /\ likeCalls'[c] # likeCalls[c])
                => /\ sheet' = sheet
                   /\ ~HasRow(call.id) => (Ended /\ likedRecipes' = likedRecipes
                                           /\ likes' = likes /\ liked' = liked)
                   /\ (HasRow(call.id) /\ ~Ended)
                         => /\ likeCalls'[c][1].phase = "put"
                            /\ likeCalls'[c][1].id = call.id
                            /\ likeCalls'[c][1].newLikes =
                                  (IF "likes" \in DOMAIN RowOf(call.id)
                                   THEN RowOf(call.id).likes ELSE 0) + 1
          /\ (likeCalls[c] # None /\ call.phase = "put" /\ Ended)
                => /\ Len(sheet') = Len(sheet)
                   /\ \A i \in DOMAIN sheet :
                         \/ sheet'[i] = sheet[i]
                         \/ /\ sheet[i].id = call.id
                            /\ DOMAIN sheet'[i] = DOMAIN sheet[i] \cup {"likes"}
                            /\ sheet'[i].likes = call.newLikes
                            /\ \A f \in DOMAIN sheet[i] \ {"likes"} :
                                  sheet'[i][f] = sheet[i][f]
                   /\ (c = Me /\ likedRecipes' # likedRecipes /\ route = "detail")
                         => likes' = call.newLikes]_vars

\* this client's like of recipe 2, whose row has no likes cell, was stored as
\* 1 and the row's other cells are what they were
C16_Witness ==
    /\ myLikeWrites[2] = 1 /\ likeCalls[Me] = None
    /\ RowOf(2) = [likes |-> 1] @@ InitialRow(2)
    /\ likes = 1 /\ liked

\* C17 as stated: every text field normalizeRecipe produces, the category
\* among them, is the stored value or the empty text when the stored field is
\* missing, and likes is the stored value or 0.
C17_MissingFieldsBecomeEmpty ==
    apiOp = "normalizeRecipe" =>
        LET From == [titulo |-> "titulo", imagem_url |-> "imagem",
                     tempo_preparo |-> "tempo", ingredientes |-> "ingredientes",
                     instrucoes |-> "preparacao", categoria |-> "categoria",
                     categoria_id |-> "categoria"]
        IN  /\ \A f \in DOMAIN From :
                  /\ f \in DOMAIN apiRes
                  /\ apiRes[f] = IF From[f] \in DOMAIN apiArg THEN apiArg[From[f]] ELSE <<>>
            /\ "likes" \in DOMAIN apiRes
            /\ apiRes.likes = IF "likes" \in DOMAIN apiArg THEN apiArg.likes ELSE 0

\* C17, amended: every field normalizeRecipe produces is present; title, image
\* URL, prep-time label, ingredients, instructions and category selector are
\* the stored value, or the empty text when the stored field is missing; the
\* category is the stored value, or 'Sem categoria' when the stored category
\* is missing or empty; likes is the stored value, or 0 when missing.
C17_MissingFieldsTakeDefaults ==
    apiOp = "normalizeRecipe" =>
        LET From == [titulo |-> "titulo", imagem_url |-> "imagem",
                     tempo_preparo |-> "tempo", ingredientes |-> "ingredientes",
                     instrucoes |-> "preparacao", categoria_id |-> "categoria"]
        IN  /\ DOMAIN apiRes = DOMAIN From \cup {"id", "categoria", "likes"}
            /\ \A f \in DOMAIN From :
                  apiRes[f] = IF From[f] \in DOMAIN apiArg THEN apiArg[From[f]] ELSE <<>>
            /\ apiRes.categoria =
                  IF "categoria" \in DOMAIN apiArg /\ apiArg.categoria # <<>>
                  THEN apiArg.categoria ELSE SemCategoria
            /\ apiRes.likes = IF "likes" \in DOMAIN apiArg THEN apiArg.likes ELSE 0
            /\ apiRes.id = apiArg.id

\* a row that holds only a title and an empty category has been normalized
C17_Witness ==
    /\ apiOp = "normalizeRecipe"
    /\ apiArg = [id |-> 1, titulo |-> <<"a">>, categoria |-> <<>>]
    /\ apiRes.categoria = SemCategoria /\ apiRes.categoria_id = <<>>
    /\ apiRes.imagem_url = <<>> /\ apiRes.likes = 0

C19_FailedLikeChangesNothing ==
    [][/\ (/\ likeCalls[Me] # None /\ likeCalls'[Me] = None
           /\ myLikeWrites' = myLikeWrites)
          => /\ likes' = likes /\ liked' = liked
             /\ likedRecipes' = likedRecipes
             /\ ~isLiking'
       /\ isLiking' => likeCalls'[Me] # None
       /\ (~isLiking /\ ~liked /\ likeCalls[Me] = None /\ likeCalls'[Me] # None)
          => likeCalls'[Me] = Some([id |-> routeId, phase |-> "get"])]_vars

\* two like calls have been started and one has ended; nothing was written or
\* marked as liked, the button of recipe 1 is enabled again and the view's
\* second call is in flight
C19_Witness ==
    /\ route = "detail" /\ routeId = 1 /\ recipe # None
    /\ callBudget = MaxLikeCalls - 2
    /\ likeCalls["other"] = None
    /\ likeCalls[Me] = Some([id |-> 1, phase |-> "get"])
    /\ isLiking /\ ~liked /\ likes = 0
    /\ likedRecipes = <<>> /\ sheet = InitialSheet

\* C20: this view has at most one likeRecipe call in flight: a call is in
\* flight only while isLiking is set, and a call is started only by a step
\* taken with isLiking and liked both unset and no call in flight, so a click
\* while liking or liked starts nothing.
C20_SingleFlightLike ==
    [][/\ likeCalls'[Me] # None => isLiking'
       /\ (/\ likeCalls'[Me] # None /\ likeCalls'[Me][1].phase = "get"
           /\ \/ likeCalls'[Me] # likeCalls[Me]
              \/ /\ callBudget' # callBudget
                 /\ \A c \in Others : likeCalls'[c] = likeCalls[c])
          => /\ ~isLiking /\ ~liked
             /\ likeCalls[Me] = None
             /\ callBudget' = callBudget - 1]_vars

\* the view's call is between its GET and its PUT with the button on screen
\* and calls left to start
C20_Witness ==
    /\ route = "detail" /\ ButtonShown
    /\ isLiking /\ ~liked
    /\ likeCalls[Me] # None /\ likeCalls[Me][1].phase = "put"
    /\ callBudget = MaxLikeCalls - 1

\* C21: the stored liked list only grows: every step leaves it as it was or
\* appends one id to it, and it appends an id only when this client's
\* likeRecipe call for that id ends having written the row's new count.
C21_LikedListOnlyGrows ==
    [][\/ likedRecipes' = likedRecipes
       \/ /\ likeCalls[Me] # None /\ likeCalls[Me][1].phase = "put"
          /\ likeCalls'[Me] = None
          /\ likedRecipes' = Append(likedRecipes, likeCalls[Me][1].id)
          /\ myLikeWrites'[likeCalls[Me][1].id] = myLikeWrites[likeCalls[Me][1].id] + 1
          /\ \E i \in DOMAIN sheet' :
                /\ sheet'[i].id = likeCalls[Me][1].id
                /\ sheet'[i].likes = likeCalls[Me][1].newLikes]_vars

\* recipe 2 has been liked and stored; the view has since moved to recipe 3,
\* which the sheet does not hold, and the list still holds 2
C21_Witness ==
    /\ likedRecipes = <<2>> /\ myLikeWrites[2] = 1
    /\ routeId = 3 /\ ~dLoading /\ likeCalls[Me] = None

C23_FailureReloadsBoth ==
    [][LET Server == [i \in 1..Len(sheet) |-> normalizeRecipe(sheet[i])] IN
       /\ (/\ aCall # None /\ aCall[1].phase = "request" /\ route = "admin"
           /\ aCall' # aCall
           /\ \/ aCall' # None
              \/ aCall[1].op # "update" /\ Len(sheet') = Len(sheet))
          => /\ aCall' # None /\ aCall'[1].phase = "reload"
             /\ aRecipes' = aRecipes /\ categories' = categories
             /\ sheet' = sheet
             /\ aLoading'
             /\ aLoad' = Some([rec |-> None, cat |-> None])
       /\ (/\ aCall # None /\ aCall[1].phase = "request" /\ route = "admin"
           /\ aCall' = None)
          => aLoad' = aLoad /\ aLoading' = aLoading
       /\ (aCall # None /\ aCall[1].phase = "reload" /\ aCall' = None)
          => /\ ~aLoading' /\ ~saving' /\ aLoad' = None
             /\ \/ aRecipes' = Server /\ categories' = CategorySheet
                \/ aRecipes' = aRecipes /\ categories' = categories]_vars

\* the first load failed and left the list empty; a create then failed, and
\* the reload it started has brought in both sheets
C23_Witness ==
    /\ route = "admin" /\ ~aLoading /\ aCall = None /\ ~saving
    /\ adminBudget = MaxAdminOps - 1
    /\ sheet = InitialSheet
    /\ showModal /\ editingRecipe = None /\ formData.titulo = <<"a">>
    /\ aRecipes = [i \in 1..2 |-> normalizeRecipe(InitialRow(i))]
    /\ categories = CategorySheet

\* C24: the dashboard is rendered (loading cleared) only when both GETs of
\* loadData have completed, by success or by failure: none of them is still
\* on its way, awaited or not.
C24_RenderedAfterBothFetches ==
    (route = "admin" /\ ~aLoading) => (aLoad = None /\ aOrphans = 0)

\* C25: the list view sends one GET when it mounts and none later; once the
\* GET settles the view leaves the loading state, with the rows of the sheet,
\* normalized and in the sheet's order, as its collection when the GET
\* succeeded and with the collection still empty when it failed, in which case
\* the page renders the same branch as a search without a match; the
\* collection never changes afterwards.
C25_OneFetchThenReady ==
    /\ [][LET Server == [i \in 1..Len(sheet) |-> normalizeRecipe(sheet[i])] IN
          /\ (homeFetch /\ ~homeFetch')
                => /\ ~hLoading'
                   /\ recipes' = Server \/ recipes' = <<>>
                   /\ recipes' = <<>> => Len(paginatedRecipes') = 0
          /\ ~homeFetch => (~homeFetch' /\ recipes' = recipes /\ ~hLoading')
          /\ hLoading' => homeFetch']_vars
    /\ (homeFetch ~> ~hLoading)

\* the sheet holds seven rows, the GET has failed: the view is ready with an
\* empty collection and shows nothing
C25_Witness ==
    /\ route = "home" /\ ~homeFetch /\ ~hLoading
    /\ Len(sheet) = 7 /\ recipes = <<>>
    /\ searchTerm = <<>> /\ Len(paginatedRecipes) = 0

\* C26: in the dashboard's list the ids are pairwise distinct after every
\* step, an update leaves every entry's id in its place, and the entry a create
\* appends does not carry the id of a recipe the list held before: not one
\* still in the list, and not one of the rows the session started with, which
\* can only have left the sheet through a delete made from this list.
C26_IdsStableAndNotReused ==
    [][/\ \A i, j \in 1..Len(aRecipes') :
             aRecipes'[i].id = aRecipes'[j].id => i = j
       /\ (/\ aCall # None /\ aCall[1].phase = "request" /\ aCall[1].op = "update"
           /\ aCall' = None /\ route = "admin")
          => /\ Len(aRecipes') = Len(aRecipes)
             /\ \A i \in 1..Len(aRecipes) : aRecipes'[i].id = aRecipes[i].id
       /\ (/\ aCall # None /\ aCall[1].phase = "request" /\ aCall[1].op = "create"
           /\ aCall' = None /\ route = "admin")
          => /\ Len(aRecipes') = Len(aRecipes) + 1
             /\ \A i \in 1..Len(aRecipes) :
                   aRecipes'[Len(aRecipes')].id # aRecipes[i].id
             /\ \A k \in 1..Len(InitialSheet) :
                   aRecipes'[Len(aRecipes')].id # InitialSheet[k].id]_vars

\* C27: whenever the detail view is not loading and shows a recipe, the recipe
\* shown is the one of the id in the route, and the liked flag is set exactly
\* when that id is in the stored liked list.
C27_ShownRecipeIsRouteRecipe ==
    (route = "detail" /\ ~dLoading /\ recipe # None)
    => /\ recipe[1].id = routeId
       /\ liked <=> Includes(likedRecipes, routeId)

\* C28: whenever the list view is ready, the current page p satisfies
\* 1 <= p <= max(1, page count), whatever previous, next, page-number and
\* search actions came before; so a filtered list that is not empty never
\* shows an empty page.
C28_PageWithinRange ==
    (route = "home" /\ ~hLoading)
    => /\ 1 <= currentPage
       /\ currentPage <= (IF totalPages > 1 THEN totalPages ELSE 1)
       /\ Len(filteredRecipes) > 0 => Len(paginatedRecipes) > 0

\* the last of the three pages of thirteen recipes is shown, with its one
\* recipe
C28_Witness ==
    /\ route = "home" /\ ~hLoading /\ Len(recipes) = 13 /\ searchTerm = <<>>
    /\ totalPages = 3 /\ currentPage = 3 /\ Len(paginatedRecipes) = 1

\* C29: an update of the dashboard changes neither the like count nor the id
\* of any row: its body holds the six text fields only, and the step that
\* applies it leaves every row's id and likes cell as they were. Whenever a
\* row's like count changes, the step is the PUT of a likeRecipe call for that
\* row and the new count is the one that call sent.
C29_UpdateKeepsLikesAndId ==
    [][LET SameLikes(a, b) ==
              /\ ("likes" \in DOMAIN a) <=> ("likes" \in DOMAIN b)
              /\ "likes" \in DOMAIN a => a.likes = b.likes
       IN
       /\ (/\ aCall # None /\ aCall[1].phase = "request" /\ aCall[1].op = "update"
           /\ aCall' # aCall)
          => /\ DOMAIN denormalizeRecipe(aCall[1].form) = TextFields
             /\ Len(sheet') = Len(sheet)
             /\ \A k \in DOMAIN sheet :
                   sheet'[k].id = sheet[k].id /\ SameLikes(sheet'[k], sheet[k])
       /\ \A k \in DOMAIN sheet \cap DOMAIN sheet' :
             (sheet'[k].id = sheet[k].id /\ ~SameLikes(sheet'[k], sheet[k]))
             => \E c \in Clients :
                   /\ likeCalls[c] # None /\ likeCalls[c][1].phase = "put"
                   /\ likeCalls[c][1].id = sheet[k].id
                   /\ likeCalls'[c] = None
                   /\ sheet'[k].likes = likeCalls[c][1].newLikes]_vars

\* recipe 2 was liked by another client and then saved by the admin with a
\* new title: the row holds the new title and the like
C29_Witness ==
    /\ route = "admin" /\ aCall = None
    /\ Len(sheet) = 2 /\ sheet[2].titulo = <<"a">>
    /\ "likes" \in DOMAIN sheet[2] /\ sheet[2].likes = 1
    /\ Len(aRecipes) = 2 /\ aRecipes[2].titulo = <<"a">> /\ aRecipes[2].likes = 1

\* C30: loadData changes the two collections together. While it waits neither
\* changes; when it ends, either the recipes are the rows GET /receitas
\* returned, normalized, and the categories are what GET /categorias returned,
\* or both collections are what they were; it ends on the first answer only
\* by a failure, and then changes neither.
C30_LoadReplacesBothOrNeither ==
    [][LET Server == [i \in 1..Len(sheet) |-> normalizeRecipe(sheet[i])] IN
       /\ (aLoad # None /\ aLoad' # None /\ aLoad' # aLoad)
          => (aRecipes' = aRecipes /\ categories' = categories /\ aLoading')
       /\ (aLoad # None /\ aLoad' = None /\ route' = "admin")
          => /\ ~aLoading'
             /\ \/ aRecipes' = Server /\ categories' = CategorySheet
                \/ aRecipes' = aRecipes /\ categories' = categories
             /\ (aLoad[1].rec = None /\ aLoad[1].cat = None)
                   => (aRecipes' = aRecipes /\ categories' = categories)
             /\ (aLoad[1].rec # None /\ aRecipes' # aRecipes) => aRecipes' = aLoad[1].rec[1]
             /\ (aLoad[1].cat # None /\ categories' # categories)
                   => categories' = aLoad[1].cat[1]]_vars

\* a GET of the first load has failed while the sheet holds two rows: the
\* load has ended, no answer is awaited, and both collections are still empty
C30_Witness ==
    /\ route = "admin" /\ ~aLoading /\ aLoad = None /\ aOrphans = 0
    /\ adminBudget = MaxAdminOps /\ sheet = InitialSheet
    /\ aRecipes = <<>> /\ categories = <<>>

====
